---- MODULE Spec2Model ----
(***************************************************************************)
(* Record manager of RMDB: RmFileHandle (heap file of fixed-length         *)
(* records, per-page occupancy bitmap, free-page list threaded through     *)
(* the page headers) and RmScan (sequential scan).                         *)
(*                                                                         *)
(* Every public call is one atomic action (calls are serialized), except  *)
(* in SpecRace, where threads run insert_record(buf) step by step.  The    *)
(* buffer pool is a collaborator: fetch_page / new_page may return         *)
(* nullptr; the input `fail` of an action is the index of the buffer call  *)
(* of that invocation which returns nullptr (0: none does).                *)
(* Rids handed to the calls have slot_no in 0 .. num_records_per_page-1;   *)
(* page_no ranges over -1 .. num_pages.                                    *)
(***************************************************************************)
EXTENDS Integers, Sequences, FiniteSets

\* ------------------------------------------------------------- bounds
\* file_hdr_.num_records_per_page of the modelled file
NumRecordsPerPage == 2
\* no page is allocated beyond this many
MaxPages == 2
\* record payloads are 1 .. NumBufs
NumBufs == 2
\* threads that call insert_record(buf) step by step
NumThreads == 2
\* calls each thread makes
MaxCalls == 1
\* a page is not pinned when its pin count has reached this
MaxPinCount == 1

\* ---------------------------------------------------------- constants
RM_NO_PAGE == -1

Slots == 0 .. NumRecordsPerPage - 1
Bufs == 1 .. NumBufs
Threads == 1 .. NumThreads
\* index of the failing buffer call of one invocation; 0 = none fails
FailAt == 0 .. MaxPages

Rid(p, s) == [page_no |-> p, slot_no |-> s]
NoRid == Rid(-1, -1)

VARIABLES
    file_hdr_,   \* in-memory RmFileHdr: num_pages, first_free_page_no
    disk_hdr,    \* RmFileHdr as last written to RM_FILE_HDR_PAGE
    pages,       \* page_no -> [num_records, next_free_page_no, bitmap, slots]
    pin_count,   \* page_no -> pins held in the buffer pool
    scan_open,   \* an RmScan object exists
    rid_,        \* RmScan::rid_
    last,        \* the last completed call: op, rid, err, msg, ret, data
    inserted,    \* history: Rid -> bytes of records put by insert_record(buf)
                 \* and since then target of no delete/update call
    quiescent,   \* history: file unchanged since the scan was constructed
    ended,       \* history: the scan has reported is_end() since construction
    yielded,     \* history: Rids the scan was positioned on, in order
    serialized,  \* the caller wraps every call in one mutex
    lock,        \* the thread inside the mutex, 0 = none
    thr          \* thread -> its insert_record(buf) in progress and result

vars == <<file_hdr_, disk_hdr, pages, pin_count, scan_open, rid_, last,
          inserted, quiescent, ended, yielded, serialized, lock, thr>>

fileVars == <<file_hdr_, disk_hdr, pages>>
scanVars == <<scan_open, rid_>>
histVars == <<inserted, quiescent, ended, yielded>>
raceVars == <<serialized, lock, thr>>

PageNos == 0 .. file_hdr_.num_pages - 1

\* ------------------------------------------------------------- Bitmap
\* is_set that looks at bit 0 whatever the position asked for
is_set_slot0(bitmap, pos) == bitmap[0]

\* is_set that reports every bit clear
is_set_never(bitmap, pos) == FALSE

\* Bitmap::is_set
is_set(bitmap, pos) == bitmap[pos]

\* get_slot that ignores the slot number (no stride)
get_slot_base(pg, slot_no) == pg.slots[0]

\* RmPageHandle::get_slot: the bytes of slot slot_no
get_slot(pg, slot_no) == pg.slots[slot_no]

Min(S) == CHOOSE x \in S : \A y \in S : x <= y

\* first_bit that returns the highest clear bit
first_bit_highest(bitmap) ==
    LET clear == {s \in Slots : ~bitmap[s]}
    IN  IF clear = {} THEN -1 ELSE CHOOSE x \in clear : \A y \in clear : y <= x

\* first_bit that returns bit 0 without looking
first_bit_zero(bitmap) == 0

\* Bitmap::first_bit(false, bitmap, max_n): lowest clear bit, -1 if none
first_bit(bitmap) ==
    LET clear == {s \in Slots : ~bitmap[s]}
    IN  IF clear = {} THEN -1 ELSE Min(clear)

PopCount(bitmap) == Cardinality({s \in Slots : bitmap[s]})

\* ------------------------------------------------------- buffer pool
Pin(pc, p) == [pc EXCEPT ![p] = @ + 1]
Unpin(pc, p) == [pc EXCEPT ![p] = IF @ > 0 THEN @ - 1 ELSE @]

\* a freshly allocated page as create_new_page_handle leaves it
NewPage(next) ==
    [num_records |-> 0,
     next_free_page_no |-> next,
     bitmap |-> [s \in Slots |-> FALSE],
     slots |-> [s \in Slots |-> 0]]

\* -------------------------------------------------------- call record
\* pinned = the most pages the call held pinned at one time; dirty = the call
\* marked a page dirty or released it with is_dirty = true
Call(op, rid, err, msg, ret, data, pinned, dirty) ==
    [op |-> op, rid |-> rid, err |-> err, msg |-> msg, ret |-> ret, data |-> data,
     pinned |-> pinned, dirty |-> dirty]

\* a read that releases its page as modified
read_is_dirty_true == TRUE

\* the is_dirty argument of the unpin_page calls of get_record and RmScan::next
read_is_dirty == FALSE

\* write_page that leaves the stored header as it was
write_page_skip(hdr) == disk_hdr

\* disk_manager_->write_page(fd_, RM_FILE_HDR_PAGE, &file_hdr_, ...): the
\* header the disk holds afterwards
write_page(hdr) == hdr

\* fetch_page_handle that reports a page number out of range as InternalError
fetch_page_handle_internal(page_no, ok) ==
    IF page_no < 0 \/ page_no >= file_hdr_.num_pages \/ ~ok
    THEN [err |-> "InternalError", msg |-> "Failed to fetch page from buffer pool"]
    ELSE [err |-> "OK", msg |-> ""]

\* outcome of RmFileHandle::fetch_page_handle(page_no); ok = the buffer
\* pool supplies the page
fetch_page_handle(page_no, ok) ==
    IF page_no < 0 \/ page_no >= file_hdr_.num_pages
    THEN [err |-> "PageNotExistError", msg |-> "Invalid page number"]
    ELSE IF ~ok
    THEN [err |-> "InternalError", msg |-> "Failed to fetch page from buffer pool"]
    ELSE [err |-> "OK", msg |-> ""]

\* a thread that has made no call yet
Idle ==
    [pc |-> "idle", calls |-> 0, page_no |-> -1, slot_no |-> -1, buf |-> 0,
     ret |-> NoRid, raced |-> FALSE, live0 |-> {}]

TypeOK ==
    /\ file_hdr_.num_pages \in 0 .. MaxPages
    /\ file_hdr_.first_free_page_no \in {RM_NO_PAGE} \cup PageNos
    /\ DOMAIN pages = PageNos
    /\ DOMAIN pin_count = PageNos
    /\ \A p \in PageNos :
          /\ pages[p].next_free_page_no \in {RM_NO_PAGE} \cup PageNos
          /\ pages[p].num_records \in 0 .. NumRecordsPerPage
          /\ pin_count[p] \in 0 .. MaxPinCount

Init ==
    /\ file_hdr_ = [num_pages |-> 0, first_free_page_no |-> RM_NO_PAGE]
    /\ disk_hdr = file_hdr_
    /\ pages = <<>>
    /\ pin_count = <<>>
    /\ scan_open = FALSE
    /\ rid_ = NoRid
    /\ last = Call("none", NoRid, "OK", "", NoRid, 0, 0, FALSE)
    /\ inserted = <<>>
    /\ quiescent = FALSE
    /\ ended = FALSE
    /\ yielded = <<>>
    /\ serialized = FALSE
    /\ lock = 0
    /\ thr = [t \in Threads |-> Idle]

\* RmFileHandle::get_record
get_record(rid, fail) ==
    LET f == fetch_page_handle(rid.page_no, fail # 1)
        p == rid.page_no
    IN  /\ UNCHANGED fileVars
        /\ IF f.err # "OK"
           THEN /\ last' = Call("get_record", rid, f.err, f.msg, NoRid, 0, 0, FALSE)
                /\ UNCHANGED pin_count
           ELSE /\ pin_count[p] < MaxPinCount
                /\ IF ~is_set(pages[p].bitmap, rid.slot_no)
                   THEN /\ pin_count' = Unpin(Pin(pin_count, p), p)
                        /\ last' = Call("get_record", rid, "RecordNotFoundError", "", NoRid, 0, 1, read_is_dirty)
                   ELSE /\ pin_count' = Unpin(Pin(pin_count, p), p)
                        /\ last' = Call("get_record", rid, "OK", "", NoRid,
                                        get_slot(pages[p], rid.slot_no), 1, read_is_dirty)

\* StoreRecord that forgets num_records++
StoreRecord_no_count(pg, slot_no, buf) ==
    [pg EXCEPT !.slots[slot_no] = buf, !.bitmap[slot_no] = TRUE]

\* the page after a record is stored in slot_no (memcpy, Bitmap::set,
\* num_records++), and unlinked when that fills it
StoreRecord(pg, slot_no, buf) ==
    LET put == [pg EXCEPT !.slots[slot_no] = buf,
                          !.bitmap[slot_no] = TRUE,
                          !.num_records = @ + 1]
    IN  IF put.num_records = NumRecordsPerPage
        THEN [put EXCEPT !.next_free_page_no = RM_NO_PAGE]
        ELSE put

\* file_hdr_ after a record was stored on page pg (state before the store):
\* a page that became full hands its next link to first_free_page_no
HdrAfterStore(hdr, pg) ==
    IF pg.num_records + 1 = NumRecordsPerPage
    THEN [hdr EXCEPT !.first_free_page_no = pg.next_free_page_no]
    ELSE hdr

\* RmFileHandle::create_new_page_handle, then the body of insert_record(buf)
\* on the new page
InsertOnNewPage(buf, fail) ==
    LET p == file_hdr_.num_pages
        hdr1 == [num_pages |-> file_hdr_.num_pages + 1, first_free_page_no |-> p]
        pg == NewPage(file_hdr_.first_free_page_no)
        slot_no == first_bit(pg.bitmap)
        hdr2 == HdrAfterStore(hdr1, pg)
    IN  IF fail = 1
        THEN /\ last' = Call("insert_record", NoRid, "InternalError",
                             "Failed to create new page", NoRid, buf, 0, FALSE)
             /\ UNCHANGED <<fileVars, pin_count>>
        ELSE IF slot_no < 0
        THEN \* thrown with the new page linked and still pinned
             /\ file_hdr_.num_pages < MaxPages
             /\ file_hdr_' = hdr1
             /\ disk_hdr' = write_page(hdr1)
             /\ pages' = [q \in 0 .. p |-> IF q = p THEN pg ELSE pages[q]]
             /\ pin_count' = Pin([q \in 0 .. p |-> IF q = p THEN 0 ELSE pin_count[q]], p)
             /\ last' = Call("insert_record", NoRid, "InternalError",
                             "No free slot found in page", NoRid, buf, 1, TRUE)
        ELSE /\ file_hdr_.num_pages < MaxPages
             /\ file_hdr_' = hdr2
             /\ disk_hdr' = write_page(hdr2)
             /\ pages' = [q \in 0 .. p |->
                            IF q = p THEN StoreRecord(pg, slot_no, buf) ELSE pages[q]]
             /\ pin_count' = Unpin(Pin([q \in 0 .. p |-> IF q = p THEN 0 ELSE pin_count[q]], p), p)
             /\ last' = Call("insert_record", NoRid, "OK", "", Rid(p, slot_no), buf, 1, TRUE)

\* fetch_page_handle(first_free_page_no), then the body of insert_record(buf)
InsertOnFreePage(buf, fail) ==
    LET p == file_hdr_.first_free_page_no
        f == fetch_page_handle(p, fail # 1)
    IN  IF f.err # "OK"
        THEN /\ last' = Call("insert_record", NoRid, f.err, f.msg, NoRid, buf, 0, FALSE)
             /\ UNCHANGED <<fileVars, pin_count>>
        ELSE LET slot_no == first_bit(pages[p].bitmap)
                 hdr2 == HdrAfterStore(file_hdr_, pages[p])
             IN  /\ pin_count[p] < MaxPinCount
                 /\ IF slot_no < 0
                    THEN \* thrown with the page still pinned
                         /\ pin_count' = Pin(pin_count, p)
                         /\ last' = Call("insert_record", NoRid, "InternalError",
                                         "No free slot found in page", NoRid, buf, 1, FALSE)
                         /\ UNCHANGED fileVars
                    ELSE /\ pages' = [pages EXCEPT ![p] = StoreRecord(@, slot_no, buf)]
                         /\ file_hdr_' = hdr2
                         /\ disk_hdr' = IF pages[p].num_records + 1 = NumRecordsPerPage
                                        THEN write_page(hdr2) ELSE disk_hdr
                         /\ pin_count' = Unpin(Pin(pin_count, p), p)
                         /\ last' = Call("insert_record", NoRid, "OK", "", Rid(p, slot_no), buf, 1, TRUE)

\* RmFileHandle::create_page_handle
create_page_handle_is_new == file_hdr_.first_free_page_no = RM_NO_PAGE

\* RmFileHandle::insert_record(char* buf, Context*)
insert_record(buf, fail) ==
    /\ IF create_page_handle_is_new
       THEN InsertOnNewPage(buf, fail)
       ELSE InsertOnFreePage(buf, fail)

\* RmFileHandle::insert_record(const Rid& rid, char* buf)
insert_record_at(rid, buf, fail) ==
    LET p == rid.page_no
        f == fetch_page_handle(p, fail # 1)
    IN  /\ IF f.err # "OK"
           THEN /\ last' = Call("insert_record_at", rid, f.err, f.msg, NoRid, buf, 0, FALSE)
                /\ UNCHANGED <<fileVars, pin_count>>
           ELSE /\ pin_count[p] < MaxPinCount
                /\ IF is_set(pages[p].bitmap, rid.slot_no)
                   THEN /\ pin_count' = Unpin(Pin(pin_count, p), p)
                        /\ last' = Call("insert_record_at", rid, "InternalError",
                                        "Slot is already occupied", NoRid, buf, 1, FALSE)
                        /\ UNCHANGED fileVars
                   ELSE LET hdr2 == HdrAfterStore(file_hdr_, pages[p])
                        IN  /\ pages' = [pages EXCEPT ![p] = StoreRecord(@, rid.slot_no, buf)]
                            /\ file_hdr_' = hdr2
                            /\ disk_hdr' = IF pages[p].num_records + 1 = NumRecordsPerPage
                                           THEN write_page(hdr2) ELSE disk_hdr
                            /\ pin_count' = Unpin(Pin(pin_count, p), p)
                            /\ last' = Call("insert_record_at", rid, "OK", "", NoRid, buf, 1, TRUE)

\* the duplicate check of RmFileHandle::release_page_handle: follow the free
\* list from check_page looking for current_page.  calls = buffer calls this
\* invocation has made so far; steps = pages visited so far.
\*   "present"  current_page is in the list (early return)
\*   "absent"   the walk reached RM_NO_PAGE
\*   "failed"   fetch_page returned nullptr
\*   "diverged" more pages visited than exist: the walk is in a cycle
\* FreeListWalk_unchecked is release_page_handle without the check.
FreeListWalk_unchecked(check_page, current_page, pgs, fail, calls, steps) ==
    "absent"

RECURSIVE FreeListWalk(_, _, _, _, _, _)
FreeListWalk(check_page, current_page, pgs, fail, calls, steps) ==
    IF check_page = RM_NO_PAGE THEN "absent"
    ELSE IF check_page = current_page THEN "present"
    ELSE IF steps > MaxPages THEN "diverged"
    ELSE IF fail = calls + 1 THEN "failed"
    ELSE FreeListWalk(pgs[check_page].next_free_page_no, current_page, pgs,
                      fail, calls + 1, steps + 1)

\* pages the duplicate check holds pinned at one time: each list page is
\* fetched, read and unpinned before the next one is fetched
WalkPinned(check_page, current_page, fail) ==
    IF check_page \notin {RM_NO_PAGE, current_page} /\ fail # 2 THEN 1 ELSE 0

\* RmFileHandle::delete_record
delete_record(rid, fail) ==
    LET p == rid.page_no
        f == fetch_page_handle(p, fail # 1)
    IN  /\ IF f.err # "OK"
           THEN /\ last' = Call("delete_record", rid, f.err, f.msg, NoRid, 0, 0, FALSE)
                /\ UNCHANGED <<fileVars, pin_count>>
           ELSE /\ pin_count[p] < MaxPinCount
                /\ IF ~is_set(pages[p].bitmap, rid.slot_no)
                   THEN /\ pin_count' = Unpin(Pin(pin_count, p), p)
                        /\ last' = Call("delete_record", rid, "RecordNotFoundError", "", NoRid, 0, 1, FALSE)
                        /\ UNCHANGED fileVars
                   ELSE LET was_full == pages[p].num_records = NumRecordsPerPage
                            cleared == [pages EXCEPT ![p].bitmap[rid.slot_no] = FALSE,
                                                     ![p].num_records = @ - 1]
                            walk == FreeListWalk(file_hdr_.first_free_page_no, p,
                                                 cleared, fail, 1, 0)
                            held == 1 + IF was_full
                                        THEN WalkPinned(file_hdr_.first_free_page_no, p, fail)
                                        ELSE 0
                        IN  IF was_full /\ walk = "absent"
                            THEN \* release_page_handle pushes the page at the head
                                 /\ pages' = [cleared EXCEPT ![p].next_free_page_no =
                                                 file_hdr_.first_free_page_no]
                                 /\ file_hdr_' = [file_hdr_ EXCEPT !.first_free_page_no = p]
                                 /\ disk_hdr' = write_page(file_hdr_')
                                 /\ pin_count' = Unpin(Pin(pin_count, p), p)
                                 /\ last' = Call("delete_record", rid, "OK", "", NoRid, 0, held, TRUE)
                            ELSE IF was_full /\ walk = "failed"
                            THEN \* release_page_handle throws; the page stays pinned
                                 /\ pages' = cleared
                                 /\ pin_count' = Pin(pin_count, p)
                                 /\ last' = Call("delete_record", rid, "InternalError",
                                      "Failed to fetch page during release_page_handle", NoRid, 0, held, TRUE)
                                 /\ UNCHANGED <<file_hdr_, disk_hdr>>
                            ELSE IF was_full /\ walk = "diverged"
                            THEN \* release_page_handle never returns
                                 /\ pages' = cleared
                                 /\ pin_count' = Pin(pin_count, p)
                                 /\ last' = Call("delete_record", rid, "NoReturn", "", NoRid, 0, held, TRUE)
                                 /\ UNCHANGED <<file_hdr_, disk_hdr>>
                            ELSE /\ pages' = cleared
                                 /\ pin_count' = Unpin(Pin(pin_count, p), p)
                                 /\ last' = Call("delete_record", rid, "OK", "", NoRid, 0, held, TRUE)
                                 /\ UNCHANGED <<file_hdr_, disk_hdr>>

\* memcpy that writes at the start of the slot area whatever slot is named
memcpy_slot_base(pg, slot_no, buf) == [pg EXCEPT !.slots[0] = buf]

\* memcpy(get_slot(slot_no), buf, record_size) of update_record
memcpy_slot(pg, slot_no, buf) == [pg EXCEPT !.slots[slot_no] = buf]

\* RmFileHandle::update_record
update_record(rid, buf, fail) ==
    LET p == rid.page_no
        f == fetch_page_handle(p, fail # 1)
    IN  /\ UNCHANGED <<file_hdr_, disk_hdr>>
        /\ IF f.err # "OK"
           THEN /\ last' = Call("update_record", rid, f.err, f.msg, NoRid, buf, 0, FALSE)
                /\ UNCHANGED <<pages, pin_count>>
           ELSE /\ pin_count[p] < MaxPinCount
                /\ IF ~is_set(pages[p].bitmap, rid.slot_no)
                   THEN /\ pin_count' = Unpin(Pin(pin_count, p), p)
                        /\ last' = Call("update_record", rid, "RecordNotFoundError", "", NoRid, buf, 1, FALSE)
                        /\ UNCHANGED pages
                   ELSE /\ pages' = [pages EXCEPT ![p] = memcpy_slot(@, rid.slot_no, buf)]
                        /\ pin_count' = Unpin(Pin(pin_count, p), p)
                        /\ last' = Call("update_record", rid, "OK", "", NoRid, buf, 1, TRUE)

\* ---------------------------------------------------------------- RmScan
\* the loops of RmScan::next from (page_no, slot_no) on; calls = pages
\* fetched so far by this invocation.  Every fetched page is unpinned
\* before the next one is fetched or the call returns.
RECURSIVE ScanFrom(_, _, _, _)
ScanFrom(page_no, slot_no, fail, calls) ==
    IF ~(page_no < file_hdr_.num_pages)
    THEN [err |-> "OK", rid |-> NoRid, pinned |-> IF calls > 0 THEN 1 ELSE 0]
    ELSE IF fetch_page_handle(page_no, fail # calls + 1).err # "OK"
    THEN [err |-> fetch_page_handle(page_no, fail # calls + 1).err, rid |-> rid_,
          pinned |-> IF calls > 0 THEN 1 ELSE 0]
    ELSE LET hits == {s \in Slots : s >= slot_no /\ is_set(pages[page_no].bitmap, s)}
         IN  IF hits # {}
             THEN [err |-> "OK", rid |-> Rid(page_no, Min(hits)), pinned |-> 1]
             ELSE ScanFrom(page_no + 1, 0, fail, calls + 1)

\* next that starts over from the first slot of the cursor's page
next_same_page(from, fail) ==
    IF from.page_no = -1
    THEN ScanFrom(0, 0, fail, 0)
    ELSE ScanFrom(from.page_no, 0, fail, 0)

\* next that probes from the cursor's own slot again
next_same_slot(from, fail) ==
    IF from.page_no = -1
    THEN ScanFrom(0, 0, fail, 0)
    ELSE ScanFrom(from.page_no, from.slot_no, fail, 0)

\* RmScan::next started on cursor `from`
next(from, fail) ==
    IF from.page_no = -1
    THEN ScanFrom(0, 0, fail, 0)
    ELSE ScanFrom(from.page_no, from.slot_no + 1, fail, 0)

\* RmScan::is_end
is_end(rid) == rid.page_no = -1

\* RmScan::RmScan
RmScan_new(fail) ==
    LET n == next(NoRid, fail)
    IN  /\ UNCHANGED <<fileVars, pin_count>>
        /\ last' = Call("RmScan", NoRid, n.err,
                        IF n.err = "OK" THEN "" ELSE "Failed to fetch page from buffer pool",
                        n.rid, 0, n.pinned, read_is_dirty)
        /\ IF n.err # "OK"
           THEN UNCHANGED scanVars
           ELSE /\ scan_open' = TRUE
                /\ rid_' = n.rid

\* RmScan::next on the open scan
RmScan_next(fail) ==
    LET n == next(rid_, fail)
    IN  /\ scan_open
        /\ UNCHANGED <<fileVars, pin_count, scan_open>>
        /\ last' = Call("next", rid_, n.err,
                        IF n.err = "OK" THEN "" ELSE "Failed to fetch page from buffer pool",
                        n.rid, 0, n.pinned, read_is_dirty)
        /\ rid_' = n.rid

\* ------------------------------------------------------------ the calls
\* inputs: any page number from -1 to num_pages, any slot of a page, any
\* payload, any buffer call of the invocation failing
RidInputs == {Rid(p, s) : p \in -1 .. file_hdr_.num_pages, s \in Slots}

\* F: the buffer calls that may fail (a single buffer call is made by every
\* operation but delete_record, whose release_page_handle makes more);
\* B: the payloads written
Get(F) == \E rid \in RidInputs, fail \in F \cap (0 .. 1) : get_record(rid, fail)
Insert(F, B) == \E buf \in B, fail \in F \cap (0 .. 1) : insert_record(buf, fail)
InsertAt(F, B) ==
    \E rid \in RidInputs, buf \in B, fail \in F \cap (0 .. 1) :
        insert_record_at(rid, buf, fail)
Delete(F) == \E rid \in RidInputs, fail \in F : delete_record(rid, fail)
Update(F, B) ==
    \E rid \in RidInputs, buf \in B, fail \in F \cap (0 .. 1) :
        update_record(rid, buf, fail)

\* the file handle alone, no scan open
NoScan == UNCHANGED <<scanVars, histVars, raceVars>>

Next ==
    \/ Get(FailAt) /\ NoScan
    \/ Insert(FailAt, Bufs) /\ NoScan
    \/ InsertAt(FailAt, Bufs) /\ NoScan
    \/ Delete(FailAt) /\ NoScan
    \/ Update(FailAt, Bufs) /\ NoScan

Spec == Init /\ [][Next]_vars

\* ------------------------------------------------- histories of records
\* inserted: Rid -> payload, for the records stored by insert_record(buf)
\* that no later delete_record / update_record call was aimed at (the
\* payload of the first such insert, should a later one return the same Rid)
TrackInserted ==
    inserted' =
        IF last'.op = "insert_record" /\ last'.err = "OK"
        THEN [r \in DOMAIN inserted \cup {last'.ret} |->
                 IF r \in DOMAIN inserted THEN inserted[r] ELSE last'.data]
        ELSE IF last'.op \in {"delete_record", "update_record"}
        THEN [r \in DOMAIN inserted \ {last'.rid} |-> inserted[r]]
        ELSE inserted

TrackInsertedOnly ==
    TrackInserted /\ UNCHANGED <<scanVars, quiescent, ended, yielded, raceVars>>

\* the file handle alone, the buffer pool supplying every page
NextReliable ==
    \/ Get({0}) /\ TrackInsertedOnly
    \/ Insert({0}, Bufs) /\ TrackInsertedOnly
    \/ InsertAt({0}, Bufs) /\ TrackInsertedOnly
    \/ Delete({0}) /\ TrackInsertedOnly
    \/ Update({0}, Bufs) /\ TrackInsertedOnly

SpecReliable == Init /\ [][NextReliable]_vars

\* --------------------------------------------------- history of a scan
\* quiescent: no call changed the file since the scan was constructed
\* ended:     the scan has been is_end() since it was constructed
\* yielded:   the Rids the scan was positioned on, in order, recorded while
\*            the file is quiescent and the scan has not ended
TrackFile ==
    /\ quiescent' = (quiescent /\ pages' = pages /\ file_hdr_' = file_hdr_)
    /\ yielded' = IF quiescent' THEN yielded ELSE <<>>
    /\ UNCHANGED <<scanVars, ended, inserted, raceVars>>

TrackNew ==
    /\ UNCHANGED <<inserted, raceVars>>
    /\ IF last'.err # "OK"
       THEN UNCHANGED <<quiescent, ended, yielded>>
       ELSE /\ quiescent' = TRUE
            /\ ended' = is_end(rid_')
            /\ yielded' = IF is_end(rid_') THEN <<>> ELSE <<rid_'>>

TrackNext ==
    /\ UNCHANGED <<inserted, quiescent, raceVars>>
    /\ ended' = (ended \/ (last'.err = "OK" /\ is_end(rid_')))
    /\ yielded' = IF last'.err = "OK" /\ quiescent /\ ~ended /\ ~is_end(rid_')
                  THEN Append(yielded, rid_') ELSE yielded

\* the file handle and one scan, the buffer pool supplying every page; the
\* scan never reads a slot, so one payload stands for all
NextScan ==
    \/ Get({0}) /\ TrackFile
    \/ Insert({0}, {1}) /\ TrackFile
    \/ InsertAt({0}, {1}) /\ TrackFile
    \/ Delete({0}) /\ TrackFile
    \/ Update({0}, {1}) /\ TrackFile
    \/ RmScan_new(0) /\ TrackNew
    \/ RmScan_next(0) /\ TrackNext

SpecScan == Init /\ [][NextScan]_vars

\* =================================================================
\* Properties
\* =================================================================
Range(seq) == {seq[i] : i \in 1 .. Len(seq)}

\* the pages met from page p on by following next_free_page_no, n at most
RECURSIVE FreeListFrom(_, _)
FreeListFrom(p, n) ==
    IF p = RM_NO_PAGE \/ n = 0 \/ p \notin PageNos THEN <<>>
    ELSE <<p>> \o FreeListFrom(pages[p].next_free_page_no, n - 1)

\* the free list: one step more than there are pages shows any repetition
FreeList == FreeListFrom(file_hdr_.first_free_page_no, file_hdr_.num_pages + 1)

NotFull(p) == pages[p].num_records < NumRecordsPerPage

AllRids == [page_no : PageNos, slot_no : Slots]
Occupied == {r \in AllRids : pages[r.page_no].bitmap[r.slot_no]}

RidLess(a, b) ==
    a.page_no < b.page_no \/ (a.page_no = b.page_no /\ a.slot_no < b.slot_no)

FileUnchanged == UNCHANGED <<file_hdr_, disk_hdr, pages>>

\* C1: after any sequence of completed calls, with the buffer pool never
\* failing, the free list holds a page iff the page is allocated and not
\* full, and holds no page twice.
C1_FreeListExact ==
    /\ \A p \in PageNos : (p \in Range(FreeList)) <=> NotFull(p)
    /\ \A i, j \in 1 .. Len(FreeList) : FreeList[i] = FreeList[j] => i = j

\* C2: first_free_page_no is RM_NO_PAGE or an allocated page that is not
\* full, and insert_record(buf) never fails for want of a free slot.
C2_HeadNotFull ==
    /\ \/ file_hdr_.first_free_page_no = RM_NO_PAGE
       \/ /\ file_hdr_.first_free_page_no \in PageNos
          /\ NotFull(file_hdr_.first_free_page_no)
    /\ ~(last.op = "insert_record" /\ last.msg = "No free slot found in page")

\* C3: on every allocated page num_records equals the number of set bitmap
\* bits, whatever calls were made, failed ones included.
C3_CountIsPopCount ==
    \A p \in PageNos : pages[p].num_records = PopCount(pages[p].bitmap)

\* C3 witness: a delete_record that failed after clearing its bit, on a page
\* that still holds a record
C3_Witness ==
    /\ last.op = "delete_record"
    /\ last.msg = "Failed to fetch page during release_page_handle"
    /\ last.rid.page_no \in PageNos
    /\ pages[last.rid.page_no].num_records >= 1
    /\ ~pages[last.rid.page_no].bitmap[last.rid.slot_no]

\* C4: a record stored by insert_record(buf) at Rid r stays readable with
\* the same bytes while no delete_record / update_record call is aimed at
\* r: its bit is set, its slot holds the payload, and get_record(r) returns
\* OK with exactly that payload.
C4_RoundTrip ==
    /\ \A r \in DOMAIN inserted :
          /\ r.page_no \in PageNos
          /\ pages[r.page_no].bitmap[r.slot_no]
          /\ pages[r.page_no].slots[r.slot_no] = inserted[r]
    /\ (last.op = "get_record" /\ last.rid \in DOMAIN inserted)
          => (last.err = "OK" /\ last.data = inserted[last.rid])

\* C4 witness: get_record of such a record, made after another record was
\* deleted (its bytes still lie in a slot whose bit is clear) and a third is
\* live
C4_Witness ==
    /\ last.op = "get_record" /\ last.rid \in DOMAIN inserted
    /\ \E r \in AllRids :
          /\ r # last.rid
          /\ ~pages[r.page_no].bitmap[r.slot_no]
          /\ pages[r.page_no].slots[r.slot_no] # 0
    /\ Cardinality(Occupied) >= 2

\* C5: a successful delete_record(r) clears the bit of r; the bit stays
\* clear until an insert sets it; and while it is clear get_record(r) and
\* delete_record(r) raise RecordNotFoundError and change nothing.
C5_DeleteIsFinal ==
    [][ /\ (last'.op = "delete_record" /\ last'.err = "OK")
            => ~pages'[last'.rid.page_no].bitmap[last'.rid.slot_no]
        /\ \A p \in PageNos, s \in Slots :
             (~pages[p].bitmap[s] /\ pages'[p].bitmap[s])
                => last'.op \in {"insert_record", "insert_record_at"}
        /\ (/\ last'.op \in {"get_record", "delete_record"}
            /\ last'.rid.page_no \in PageNos
            /\ ~pages[last'.rid.page_no].bitmap[last'.rid.slot_no])
             => (last'.err = "RecordNotFoundError" /\ FileUnchanged)
      ]_vars

\* C5 witness: a second delete_record of a record once stored and since
\* deleted
C5_Witness ==
    /\ last.op = "delete_record" /\ last.err = "RecordNotFoundError"
    /\ pages[last.rid.page_no].slots[last.rid.slot_no] # 0

C7_FailureChangesNothing ==
    [][ last'.err # "OK" => FileUnchanged ]_vars

\* C8: a call that fails leaves every pin count as it was.
C8_FailureLeaksNoPin ==
    [][ last'.err # "OK" => pin_count' = pin_count ]_vars

\* C9: get_record, insert_record(rid, buf), delete_record and update_record
\* with page_no outside [0, num_pages) raise PageNotExistError, pin nothing
\* and change nothing.
C9_PageNotExist ==
    [][ (/\ last'.op \in {"get_record", "insert_record_at", "delete_record",
                          "update_record"}
         /\ last'.rid.page_no \notin PageNos)
          => (/\ last'.err = "PageNotExistError"
              /\ FileUnchanged
              /\ pin_count' = pin_count)
      ]_vars

\* C9 witness: a call with page_no = num_pages on a file that has pages
C9_Witness ==
    /\ last.err = "PageNotExistError"
    /\ last.rid.page_no = file_hdr_.num_pages
    /\ file_hdr_.num_pages > 0

\* C10: a scan of a quiescent file is positioned on occupied Rids only, in
\* strictly increasing (page_no, slot_no) order; when it has reached is_end()
\* it has been positioned on every occupied Rid; on a file with no occupied
\* slot it is at its end from construction on.
C10_ScanExact ==
    (scan_open /\ quiescent) =>
        /\ Range(yielded) \subseteq Occupied
        /\ \A i, j \in 1 .. Len(yielded) : i < j => RidLess(yielded[i], yielded[j])
        /\ ended => Range(yielded) = Occupied
        /\ ~ended => (yielded # <<>> /\ rid_ = yielded[Len(yielded)])
        /\ Occupied = {} => (ended /\ is_end(rid_))

\* C10 witness: a finished scan of a quiescent two-page file with a clear
\* slot before an occupied one
C10_Witness ==
    /\ scan_open /\ quiescent /\ ended
    /\ Len(yielded) >= 2
    /\ \E r \in Range(yielded) : r.page_no = 1
    /\ \E r \in AllRids :
          r \notin Occupied /\ RidLess(r, yielded[Len(yielded)])

\* C11: the exhausted state of a scan is absorbing: a next() called on a
\* cursor that is at its end leaves the cursor at its end (page_no = -1),
\* whatever the file holds.
C11_ExhaustedAbsorbing ==
    [][ (scan_open /\ is_end(rid_) /\ last'.op = "next") => is_end(rid_') ]_vars

\* the occupied slots of page p
Bits(p) == {s \in Slots : pages[p].bitmap[s]}

\* the file along the scenario insert, insert, insert, delete(Rid{0,0}),
\* insert on an empty file with two slots per page, after k of its calls
Scenario(k) ==
    LET hdr(n, f) == file_hdr_ = [num_pages |-> n, first_free_page_no |-> f]
        page(p, bits, link) ==
            Bits(p) = bits /\ pages[p].next_free_page_no = link
    IN  CASE k = 0 -> hdr(0, RM_NO_PAGE)
          [] k = 1 -> hdr(1, 0) /\ page(0, {0}, RM_NO_PAGE)
          [] k = 2 -> hdr(1, RM_NO_PAGE) /\ page(0, {0, 1}, RM_NO_PAGE)
          [] k = 3 -> hdr(2, 1) /\ page(0, {0, 1}, RM_NO_PAGE)
                                /\ page(1, {0}, RM_NO_PAGE)
          [] k = 4 -> hdr(2, 0) /\ page(0, {1}, 1) /\ page(1, {0}, RM_NO_PAGE)
          [] k = 5 -> hdr(2, 1) /\ page(0, {0, 1}, RM_NO_PAGE)
                                /\ page(1, {0}, RM_NO_PAGE)

\* C12: an insert_record(buf) that returns places the record on the page
\* first_free_page_no names when that is not RM_NO_PAGE, and on a new page,
\* numbered by the previous num_pages (num_pages grows by exactly 1), only
\* when it is RM_NO_PAGE; on that page it takes the lowest clear bit.  With
\* two slots per page, insert, insert, insert, delete(Rid{0,0}), insert on an
\* empty file return Rid{0,0}, Rid{0,1}, Rid{1,0} and then Rid{0,0} again.
C12_InsertPlacement ==
    [][ /\ (last'.op = "insert_record" /\ last'.err = "OK") =>
             LET r == last'.ret
             IN  /\ IF file_hdr_.first_free_page_no # RM_NO_PAGE
                    THEN /\ r.page_no = file_hdr_.first_free_page_no
                         /\ file_hdr_'.num_pages = file_hdr_.num_pages
                         /\ ~pages[r.page_no].bitmap[r.slot_no]
                         /\ \A s \in Slots : s < r.slot_no => pages[r.page_no].bitmap[s]
                    ELSE /\ r.page_no = file_hdr_.num_pages
                         /\ file_hdr_'.num_pages = file_hdr_.num_pages + 1
                         /\ r.slot_no = 0
                 /\ pages'[r.page_no].bitmap[r.slot_no]
                 /\ pages'[r.page_no].slots[r.slot_no] = last'.data
        /\ (NumRecordsPerPage = 2 /\ last'.err = "OK") =>
             /\ (last'.op = "insert_record" /\ Scenario(0))
                   => (last'.ret = Rid(0, 0) /\ Scenario(1)')
             /\ (last'.op = "insert_record" /\ Scenario(1))
                   => (last'.ret = Rid(0, 1) /\ Scenario(2)')
             /\ (last'.op = "insert_record" /\ Scenario(2))
                   => (last'.ret = Rid(1, 0) /\ Scenario(3)')
             /\ (last'.op = "delete_record" /\ last'.rid = Rid(0, 0) /\ Scenario(3))
                   => Scenario(4)'
             /\ (last'.op = "insert_record" /\ Scenario(4))
                   => (last'.ret = Rid(0, 0) /\ Scenario(5)')
      ]_vars

\* C12 witness: with two pages allocated, insert_record(buf) has just
\* returned Rid{0,0}, the slot a delete had freed on the refilled page 0
C12_Witness ==
    /\ last.op = "insert_record" /\ last.err = "OK" /\ last.ret = Rid(0, 0)
    /\ NumRecordsPerPage = 2 => Scenario(5)
    /\ file_hdr_.num_pages = 2 /\ Bits(0) = Slots

\* C13: when a call has returned, normally or with an error, the header
\* stored on disk equals the file header in memory.
C13_HeaderFlushed == disk_hdr = file_hdr_

\* C13 witness: a delete_record has pushed a page in front of a non-empty
\* free list, changing first_free_page_no
C13_Witness ==
    /\ last.op = "delete_record" /\ last.err = "OK"
    /\ file_hdr_.first_free_page_no = last.rid.page_no
    /\ pages[last.rid.page_no].next_free_page_no # RM_NO_PAGE

\* C14: at every step of every call at most one data page is pinned by the
\* call: no call fetches a second page while it holds its bound page.
C14_AtMostOnePinned == last.pinned <= 1

\* C15: a get_record, insert_record (either form), delete_record,
\* update_record or scan next() that returns normally leaves the pin count
\* of every page as it was (a page it allocated is left unpinned);
\* get_record and next() release with is_dirty = false, mark no page dirty
\* and change no page.
C15_PinsBalanced ==
    [][ (/\ last'.err = "OK"
         /\ last'.op \in {"get_record", "insert_record", "insert_record_at",
                          "delete_record", "update_record", "next"})
          => /\ \A p \in DOMAIN pin_count' :
                   pin_count'[p] = IF p \in DOMAIN pin_count THEN pin_count[p] ELSE 0
             /\ last'.op \in {"get_record", "next"} =>
                   (~last'.dirty /\ pages' = pages)
      ]_vars

\* C15 witness: a next() that fetched a page has moved the cursor onto the
\* second page, and the file holds no pin
C15_Witness ==
    /\ last.op = "next" /\ last.err = "OK" /\ last.pinned = 1
    /\ rid_.page_no = 1
    /\ \A p \in PageNos : pin_count[p] = 0

\* C16: a delete_record that returns normally from a page that was full
\* leaves that page at the head of the free list (first_free_page_no is its
\* number) with the previous head as its next-free link; from a page that
\* was not full it leaves first_free_page_no and every next-free link as
\* they were.
C16_DeleteRelinks ==
    [][ (last'.op = "delete_record" /\ last'.err = "OK") =>
          LET p == last'.rid.page_no
          IN  IF pages[p].num_records = NumRecordsPerPage
              THEN /\ file_hdr_'.first_free_page_no = p
                   /\ pages'[p].next_free_page_no = file_hdr_.first_free_page_no
              ELSE /\ file_hdr_'.first_free_page_no = file_hdr_.first_free_page_no
                   /\ \A q \in PageNos :
                         pages'[q].next_free_page_no = pages[q].next_free_page_no
      ]_vars

\* C17: an update_record(rid, buf) that returns normally changes the bytes
\* of slot rid and nothing else: every bitmap, num_records, next-free link,
\* num_pages, first_free_page_no and every other slot are as before; a
\* get_record that returns normally changes nothing at all.
C17_UpdateFrame ==
    [][ /\ (last'.op = "update_record" /\ last'.err = "OK") =>
              /\ file_hdr_' = file_hdr_ /\ disk_hdr' = disk_hdr
              /\ DOMAIN pages' = DOMAIN pages
              /\ pages'[last'.rid.page_no].slots[last'.rid.slot_no] = last'.data
              /\ \A q \in PageNos :
                    /\ pages'[q].bitmap = pages[q].bitmap
                    /\ pages'[q].num_records = pages[q].num_records
                    /\ pages'[q].next_free_page_no = pages[q].next_free_page_no
                    /\ \A t \in Slots :
                          Rid(q, t) # last'.rid => pages'[q].slots[t] = pages[q].slots[t]
        /\ (last'.op = "get_record" /\ last'.err = "OK") =>
              /\ FileUnchanged
              /\ pin_count' = pin_count
              /\ UNCHANGED scanVars
      ]_vars

\* C17 witness: update_record has rewritten one slot of a page whose other
\* slot holds a record with different bytes
C17_Witness ==
    /\ last.op = "update_record" /\ last.err = "OK"
    /\ pages[last.rid.page_no].slots[last.rid.slot_no] = last.data
    /\ \E t \in Slots :
          /\ t < last.rid.slot_no
          /\ pages[last.rid.page_no].bitmap[t]
          /\ pages[last.rid.page_no].slots[t] # last.data

\* C19: the next_free_page_no links of the allocated pages form no cycle in
\* any reachable state (the chain from every page, and from
\* first_free_page_no, ends at RM_NO_PAGE within num_pages pages), so the
\* duplicate check of release_page_handle always ends, after at most
\* num_pages pages.
C19_LinksAcyclic ==
    /\ \A p \in PageNos \cup {file_hdr_.first_free_page_no} :
          Len(FreeListFrom(p, file_hdr_.num_pages + 1)) <= file_hdr_.num_pages
    /\ last.err # "NoReturn"

\* C19 witness: the duplicate check has walked a free list that positioned
\* inserts had corrupted (it holds a full page)
C19_Witness ==
    /\ last.op = "delete_record" /\ last.err = "OK" /\ last.pinned = 2
    /\ \E p \in Range(FreeList) : ~NotFull(p)

\* C20: while the scan is positioned, each next() that returns a Rid returns
\* one strictly greater in (page_no, slot_no) than the Rid the cursor was
\* on, whatever inserts and deletes happened in between, and the bit of the
\* Rid returned is set when next() returns.
C20_ScanIncreasing ==
    [][ (/\ last'.op = "next" /\ last'.err = "OK"
         /\ ~is_end(rid_) /\ ~is_end(rid_'))
          => /\ RidLess(rid_, rid_')
             /\ last'.ret = rid_'
             /\ rid_' \in AllRids
             /\ pages'[rid_'.page_no].bitmap[rid_'.slot_no]
      ]_vars

\* C20 witness: next() has moved a positioned cursor forward over a file
\* that changed since the scan was constructed
C20_Witness ==
    /\ scan_open /\ ~quiescent
    /\ last.op = "next" /\ last.err = "OK"
    /\ ~is_end(last.rid) /\ ~is_end(rid_)
    /\ \E r \in AllRids : RidLess(r, rid_) /\ r \notin Occupied

\* ------------------------------------- insert_record(buf), step by step
\* Threads call insert_record(buf) one statement group at a time, with the
\* buffer pool supplying every page; the other calls run as whole calls
\* before, between and after.  With serialized the caller holds one mutex
\* from call to return.
MayEnter(t) == serialized => lock = 0
Inside(t) == serialized => lock = t

\* the call starts (and takes the mutex); live0 remembers, for a call made
\* inside the mutex, the records live at that moment, until the call returns
insert_call(t, buf) ==
    /\ thr[t].pc = "idle" /\ thr[t].calls < MaxCalls
    /\ MayEnter(t)
    /\ lock' = IF serialized THEN t ELSE lock
    /\ thr' = [thr EXCEPT ![t] =
                 [pc |-> "create_page_handle", calls |-> @.calls + 1,
                  page_no |-> -1, slot_no |-> -1, buf |-> buf, ret |-> NoRid,
                  raced |-> FALSE,
                  live0 |-> IF serialized THEN Occupied ELSE {}]]
    /\ UNCHANGED <<fileVars, pin_count, last, serialized>>

\* line 43: create_page_handle binds the head page or a new page
insert_create_page_handle(t) ==
    /\ thr[t].pc = "create_page_handle" /\ Inside(t)
    /\ IF create_page_handle_is_new
       THEN LET p == file_hdr_.num_pages
                hdr1 == [num_pages |-> p + 1, first_free_page_no |-> p]
            IN  /\ p < MaxPages
                /\ file_hdr_' = hdr1
                /\ disk_hdr' = write_page(hdr1)
                /\ pages' = [q \in 0 .. p |->
                               IF q = p THEN NewPage(file_hdr_.first_free_page_no)
                               ELSE pages[q]]
                /\ pin_count' = [q \in 0 .. p |-> IF q = p THEN 1 ELSE pin_count[q]]
                /\ thr' = [thr EXCEPT ![t].pc = "first_bit", ![t].page_no = p]
       ELSE LET p == file_hdr_.first_free_page_no
            IN  /\ pin_count' = Pin(pin_count, p)
                /\ thr' = [thr EXCEPT ![t].pc = "first_bit", ![t].page_no = p]
                /\ UNCHANGED fileVars
    /\ UNCHANGED <<last, serialized, lock>>

\* lines 46-50: the bitmap probe; thrown with the page pinned when the
\* page has no clear bit
insert_first_bit(t) ==
    LET p == thr[t].page_no
        slot_no == first_bit(pages[p].bitmap)
    IN  /\ thr[t].pc = "first_bit" /\ Inside(t)
        /\ IF slot_no < 0
           THEN /\ thr' = [thr EXCEPT ![t].pc = "idle", ![t].live0 = {}]
                /\ lock' = 0
                /\ last' = Call("insert_record", NoRid, "InternalError",
                                "No free slot found in page", NoRid, thr[t].buf, 1, FALSE)
           ELSE /\ thr' = [thr EXCEPT
                             ![t].pc = "set", ![t].slot_no = slot_no,
                             ![t].raced = \E u \in Threads \ {t} :
                                             /\ thr[u].pc = "set"
                                             /\ thr[u].page_no = p
                                             /\ thr[u].slot_no = slot_no]
                /\ UNCHANGED <<last, lock>>
        /\ UNCHANGED <<fileVars, pin_count, serialized>>

\* lines 53-58: memcpy into the slot, Bitmap::set, num_records++
insert_set(t) ==
    LET p == thr[t].page_no
        slot_no == thr[t].slot_no
    IN  /\ thr[t].pc = "set" /\ Inside(t)
        /\ pages' = [pages EXCEPT ![p].slots[slot_no] = thr[t].buf,
                                  ![p].bitmap[slot_no] = TRUE,
                                  ![p].num_records = @ + 1]
        /\ thr' = [thr EXCEPT ![t].pc = "return"]
        /\ UNCHANGED <<file_hdr_, disk_hdr, pin_count, last, serialized, lock>>

\* lines 61-76: a page found full is unlinked and the header written; the
\* page is unpinned and the Rid returned (and the mutex released)
insert_return(t) ==
    LET p == thr[t].page_no
        full == pages[p].num_records = NumRecordsPerPage
        hdr2 == [file_hdr_ EXCEPT !.first_free_page_no = pages[p].next_free_page_no]
    IN  /\ thr[t].pc = "return" /\ Inside(t)
        /\ IF full
           THEN /\ file_hdr_' = hdr2
                /\ pages' = [pages EXCEPT ![p].next_free_page_no = RM_NO_PAGE]
                /\ disk_hdr' = write_page(hdr2)
           ELSE UNCHANGED fileVars
        /\ pin_count' = Unpin(pin_count, p)
        /\ thr' = [thr EXCEPT ![t].pc = "idle", ![t].ret = Rid(p, thr[t].slot_no),
                              ![t].live0 = {}]
        /\ lock' = 0
        /\ last' = Call("insert_record", NoRid, "OK", "", Rid(p, thr[t].slot_no),
                        thr[t].buf, 1, TRUE)
        /\ UNCHANGED serialized

\* a whole call, made while no thread is inside insert_record(buf)
Whole ==
    /\ \A t \in Threads : thr[t].pc = "idle"
    /\ UNCHANGED <<scanVars, histVars, raceVars>>

\* thread t writes its own payload, so that the records can be told apart
Payload(t) == ((t - 1) % NumBufs) + 1

InitRace ==
    /\ file_hdr_ = [num_pages |-> 0, first_free_page_no |-> RM_NO_PAGE]
    /\ disk_hdr = file_hdr_
    /\ pages = <<>>
    /\ pin_count = <<>>
    /\ scan_open = FALSE
    /\ rid_ = NoRid
    /\ last = Call("none", NoRid, "OK", "", NoRid, 0, 0, FALSE)
    /\ inserted = <<>>
    /\ quiescent = FALSE
    /\ ended = FALSE
    /\ yielded = <<>>
    /\ serialized \in BOOLEAN
    /\ lock = 0
    /\ thr = [t \in Threads |-> Idle]

NextRace ==
    \/ \E t \in Threads : insert_call(t, Payload(t)) /\ UNCHANGED <<scanVars, histVars>>
    \/ \E t \in Threads : insert_create_page_handle(t) /\ UNCHANGED <<scanVars, histVars>>
    \/ \E t \in Threads : insert_first_bit(t) /\ UNCHANGED <<scanVars, histVars>>
    \/ \E t \in Threads : insert_set(t) /\ UNCHANGED <<scanVars, histVars>>
    \/ \E t \in Threads : insert_return(t) /\ UNCHANGED <<scanVars, histVars>>
    \/ Insert({0}, {1}) /\ Whole
    \/ InsertAt({0}, {1}) /\ Whole
    \/ Delete({0}) /\ Whole

SpecRace == InitRace /\ [][NextRace]_vars

\* C18: when every call runs inside one mutex, the Rid insert_record(buf)
\* returns is not the Rid of a record that was live when the call began.
\* (Without the mutex two calls can probe the same clear bit before either
\* sets it, return the same Rid, and one record overwrites the other: the
\* witness.)
C18_SerializedInsertFresh ==
    [][ \A t \in Threads :
          (serialized /\ thr[t].pc = "return" /\ thr'[t].pc = "idle")
            => (thr'[t].ret # NoRid /\ thr'[t].ret \notin thr[t].live0)
      ]_vars

\* C18 witness: without the mutex both threads have returned the same Rid,
\* the second having probed the bit while the first was between its probe
\* and its Bitmap::set; the slot holds one of the two records and
\* num_records counts a record the bitmap does not show
C18_Witness ==
    /\ ~serialized
    /\ thr[1].pc = "idle" /\ thr[2].pc = "idle"
    /\ thr[1].ret # NoRid /\ thr[1].ret = thr[2].ret
    /\ thr[1].raced \/ thr[2].raced
    /\ thr[1].buf # thr[2].buf
    /\ pages[thr[1].ret.page_no].bitmap[thr[1].ret.slot_no]
    /\ pages[thr[1].ret.page_no].slots[thr[1].ret.slot_no] \in {thr[1].buf, thr[2].buf}
    /\ pages[thr[1].ret.page_no].num_records
          > PopCount(pages[thr[1].ret.page_no].bitmap)
====
